---- MODULE Spec2Model ----
(***************************************************************************)
(* Model of the core of the CRISPR score analyzer (src/app.py): the column *)
(* classifier and gene rank builder (compute_gene_rankings), the gene name *)
(* matcher (filter_genes_by_list) and the lineage aggregator               *)
(* (get_lineage_data), and the script itself as Streamlit reruns it on     *)
(* every interaction: data loading, ranking, and the three tabs.           *)
(*                                                                         *)
(* Conventions of the model                                                *)
(*   - a string is a sequence of one-character strings, so that upper(),   *)
(*     lower(), substring tests and the regular expression of              *)
(*     extract_gene_name are computed character by character;              *)
(*   - a table cell is <<>> when missing (NaN) and <<v>> otherwise, v an   *)
(*     integer number of thousandths (the score -2.0 is <<-2000>>); cells  *)
(*     of a non-numeric column hold an integer label code;                 *)
(*   - floating-point numbers are exact rationals [num, den] in lowest     *)
(*     terms;                                                              *)
(*   - Python's None is <<>> and a present value x is <<x>>.               *)
(***************************************************************************)
EXTENDS Integers, Sequences, FiniteSets, TLC

VARIABLES df, pc, gene_rankings, n_cell_lines, error_msg, display,
          gene_list, matched, not_found, lineage_col, lineage_data,
          session_state, uploaded_file, data_loaded, download_called,
          rankings_cache, gdrive_cache, tabs

\* the session, the widgets and the caches of the running application
appVars == <<session_state, uploaded_file, data_loaded, download_called,
             rankings_cache, gdrive_cache, tabs>>

vars == <<df, pc, gene_rankings, n_cell_lines, error_msg, display,
          gene_list, matched, not_found, lineage_col, lineage_data, appVars>>

None == <<>>

Some(x) == <<x>>

(***************************************************************************)
(* Strings                                                                 *)
(***************************************************************************)
LowerAlpha == <<"a","b","c","d","e","f","g","h","i","j","k","l","m",
                "n","o","p","q","r","s","t","u","v","w","x","y","z">>

UpperAlpha == <<"A","B","C","D","E","F","G","H","I","J","K","L","M",
                "N","O","P","Q","R","S","T","U","V","W","X","Y","Z">>

Digits == {"0","1","2","3","4","5","6","7","8","9"}

Range(s) == {s[i] : i \in DOMAIN s}

UpperChar(c) ==
    IF \E i \in DOMAIN LowerAlpha : LowerAlpha[i] = c
    THEN UpperAlpha[CHOOSE i \in DOMAIN LowerAlpha : LowerAlpha[i] = c]
    ELSE c

LowerChar(c) ==
    IF \E i \in DOMAIN UpperAlpha : UpperAlpha[i] = c
    THEN LowerAlpha[CHOOSE i \in DOMAIN UpperAlpha : UpperAlpha[i] = c]
    ELSE c

\* str.upper()
Upper(s) == [i \in DOMAIN s |-> UpperChar(s[i])]

\* str.lower()
Lower(s) == [i \in DOMAIN s |-> LowerChar(s[i])]

\* the Python test  sub in s  on strings
Contains(s, sub) ==
    \E i \in 0..(Len(s) - Len(sub)) : SubSeq(s, i + 1, i + Len(sub)) = sub

\* the character class [A-Za-z0-9_.-]
IsTokenChar(c) ==
    c \in Range(LowerAlpha) \cup Range(UpperAlpha) \cup Digits \cup {"_", ".", "-"}

\* the character class \s
IsSpace(c) == c \in {" ", "\t"}

\* the match without the optional white space before the parenthesis
ExtractGeneNameNoSpace(col_name) ==
    LET n == Len(col_name)
        k == CHOOSE k \in 0..n :
                 /\ \A i \in 1..k : IsTokenChar(col_name[i])
                 /\ k = n \/ ~IsTokenChar(col_name[k + 1])
    IN  IF k >= 1 /\ k < n /\ col_name[k + 1] = "("
        THEN SubSeq(col_name, 1, k)
        ELSE col_name

\* re.match(r'^([A-Za-z0-9_.-]+)\s*\(', col_name): the greedy token is the
\* longest prefix of token characters (a shorter one is followed by a token
\* character, which is neither white space nor a parenthesis), then the
\* longest run of white space, then an opening parenthesis.
ExtractGeneName(col_name) ==
    LET n == Len(col_name)
        k == CHOOSE k \in 0..n :
                 /\ \A i \in 1..k : IsTokenChar(col_name[i])
                 /\ k = n \/ ~IsTokenChar(col_name[k + 1])
        j == CHOOSE j \in k..n :
                 /\ \A i \in (k + 1)..j : IsSpace(col_name[i])
                 /\ j = n \/ ~IsSpace(col_name[j + 1])
    IN  IF k >= 1 /\ j < n /\ col_name[j + 1] = "("
        THEN SubSeq(col_name, 1, k)
        ELSE col_name

(***************************************************************************)
(* Numbers                                                                 *)
(***************************************************************************)
Abs(x) == IF x < 0 THEN -x ELSE x

RECURSIVE GCD(_, _)
GCD(a, b) == IF b = 0 THEN a ELSE GCD(b, a % b)

\* the rational n/d (d # 0) in lowest terms with a positive denominator
Rat(n, d) ==
    LET g == GCD(Abs(n), Abs(d))
        s == IF d < 0 THEN -1 ELSE 1
    IN  [num |-> s * (n \div g), den |-> s * (d \div g)]

RatLT(a, b) == a.num * b.den < b.num * a.den

RatLE(a, b) == a.num * b.den <= b.num * a.den

RatMul(a, b) == Rat(a.num * b.num, a.den * b.den)

\* thousandths, the unit of the table cells
Milli(x) == x * 1000

(***************************************************************************)
(* Table columns                                                           *)
(***************************************************************************)
\* pd.api.types.is_numeric_dtype
IsNumericDtype(dtype) == dtype \in {"float64", "int64", "bool"}

\* Series.dropna()
DropNa(vals) == SelectSeq(vals, LAMBDA c : c # <<>>)

RECURSIVE SumOf(_)
SumOf(s) == IF s = <<>> THEN 0 ELSE Head(s)[1] + SumOf(Tail(s))

\* sum over the values x of (n * x - total)^2, that is n^2 times the sum of
\* the squared deviations from the mean total / n
RECURSIVE SumSqDev(_, _, _)
SumSqDev(s, n, total) ==
    IF s = <<>> THEN 0
    ELSE (n * Head(s)[1] - total) * (n * Head(s)[1] - total)
             + SumSqDev(Tail(s), n, total)

\* Series.mean() of the non-missing values, in score units
MeanOf(vals) ==
    LET s == DropNa(vals) IN Rat(SumOf(s), Milli(Len(s)))

MinNonMissing == 10

MeanLow == -5

MeanHigh == 2

\* the threshold 0.01 of the standard deviation, in thousandths
StdMinMilli == 10

\* Series.std() > 0.01 with the sample standard deviation (ddof = 1):
\* var = sum((x - mean)^2) / (n - 1), compared after multiplying by n^2 (n - 1)
StdAbove(s) ==
    LET n == Len(s)
    IN  /\ n > 1
        /\ SumSqDev(s, n, SumOf(s)) > StdMinMilli * StdMinMilli * n * n * (n - 1)

\* the classifier with the upper bound of the mean included
IsScoreColumnInclusive(col) ==
    /\ IsNumericDtype(col.dtype)
    /\ LET sample_vals == DropNa(col.vals)
           n == Len(sample_vals)
       IN  /\ n > MinNonMissing
           /\ Milli(MeanLow) * n < SumOf(sample_vals)
           /\ SumOf(sample_vals) <= Milli(MeanHigh) * n
           /\ StdAbove(sample_vals)

\* the test of one column in the loop of compute_gene_rankings
IsScoreColumn(col) ==
    /\ IsNumericDtype(col.dtype)
    /\ LET sample_vals == DropNa(col.vals)
           n == Len(sample_vals)
       IN  /\ n > MinNonMissing
           /\ Milli(MeanLow) * n < SumOf(sample_vals)
           /\ SumOf(sample_vals) < Milli(MeanHigh) * n
           /\ StdAbove(sample_vals)

\* gene_cols and meta_cols after the loop, in column order
GeneCols(table) == SelectSeq(table, IsScoreColumn)

MetaCols(table) == SelectSeq(table, LAMBDA col : ~IsScoreColumn(col))

\* len(df)
NumRows(table) == IF table = <<>> THEN 0 ELSE Len(table[1].vals)

(***************************************************************************)
(* compute_gene_rankings                                                   *)
(***************************************************************************)
\* df[gene_cols].mean(): one entry per score column, in column order
MeanScores(table) ==
    LET gene_cols == GeneCols(table)
    IN  [i \in DOMAIN gene_cols |->
            [index |-> gene_cols[i].name, value |-> MeanOf(gene_cols[i].vals)]]

\* the sort in descending order
SortValuesDescending(series) ==
    LET n == Len(series)
    IN  { [i \in 1..n |-> series[p[i]]] :
            p \in { q \in Permutations(1..n) :
                      \A i \in 1..(n - 1) :
                          RatLE(series[q[i + 1]].value, series[q[i]].value) } }

\* Series.sort_values() with its default kind = 'quicksort', which is not a
\* stable sort: every arrangement of the entries by non-decreasing value is a
\* possible outcome, entries of equal value in any order.
SortValues(series) ==
    LET n == Len(series)
    IN  { [i \in 1..n |-> series[p[i]]] :
            p \in { q \in Permutations(1..n) :
                      \A i \in 1..(n - 1) :
                          RatLE(series[q[i]].value, series[q[i + 1]].value) } }

\* the percentile of the zero-based position
PercentileZeroBased(i, n) == RatMul(Rat(i - 1, n), Rat(100, 1))

\* (i / len(mean_scores)) * 100
Percentile(i, n) == RatMul(Rat(i, n), Rat(100, 1))

\* the rankings with ranks counted from 0
BuildRankingsZeroBased(mean_scores) ==
    LET n == Len(mean_scores)
    IN  [i \in 1..n |->
            [gene_raw   |-> mean_scores[i].index,
             gene       |-> ExtractGeneName(mean_scores[i].index),
             mean_score |-> mean_scores[i].value,
             rank       |-> i - 1,
             percentile |-> Percentile(i, n),
             gene_upper |-> Upper(ExtractGeneName(mean_scores[i].index))]]

\* the rankings DataFrame built from the sorted means, gene_upper included
BuildRankings(mean_scores) ==
    LET n == Len(mean_scores)
    IN  [i \in 1..n |->
            [gene_raw   |-> mean_scores[i].index,
             gene       |-> ExtractGeneName(mean_scores[i].index),
             mean_score |-> mean_scores[i].value,
             rank       |-> i,
             percentile |-> Percentile(i, n),
             gene_upper |-> Upper(ExtractGeneName(mean_scores[i].index))]]

NoScoreColumnsMsg == "no numeric column with the features of a CRISPR score"

\* the failure without its message
NoScoreColumnsSilent == <<None, 0, None>>

\* return None, 0, "..."  when gene_cols is empty
NoScoreColumnsFound == <<None, 0, Some(NoScoreColumnsMsg)>>

\* the call  gene_rankings, n_cell_lines, error_msg = compute_gene_rankings(df)
ComputeGeneRankings ==
    /\ pc = "loaded"
    /\ IF GeneCols(df) = <<>>
       THEN /\ gene_rankings' = NoScoreColumnsFound[1]
            /\ n_cell_lines' = NoScoreColumnsFound[2]
            /\ error_msg' = NoScoreColumnsFound[3]
       ELSE \E mean_scores \in SortValues(MeanScores(df)) :
                /\ gene_rankings' = Some(BuildRankings(mean_scores))
                /\ n_cell_lines' = NumRows(df)
                /\ error_msg' = None
    /\ pc' = "ranked"
    /\ UNCHANGED <<df, display, gene_list, matched, not_found,
                   lineage_col, lineage_data, appVars>>

DiagColumns == 10

DiagDtypes == 15

Take(s, n) == SubSeq(s, 1, IF Len(s) < n THEN Len(s) ELSE n)

\* the branch  if gene_rankings is None  of the main script: the error, the
\* first column names, the shape and the first dtypes are shown and the run
\* stops
ShowRankingFailure ==
    /\ pc = "ranked"
    /\ gene_rankings = None
    /\ display' = Some([error   |-> error_msg[1],
                        columns |-> Take([i \in DOMAIN df |-> df[i].name], DiagColumns),
                        shape   |-> <<NumRows(df), Len(df)>>,
                        dtypes  |-> Take([i \in DOMAIN df |-> df[i].dtype], DiagDtypes)])
    /\ pc' = "stopped"
    /\ UNCHANGED <<df, gene_rankings, n_cell_lines, error_msg, gene_list,
                   matched, not_found, lineage_col, lineage_data, appVars>>

(***************************************************************************)
(* Input tables                                                            *)
(***************************************************************************)
MaxCols == 3

MaxRows == 12

MaxMissing == 2

Repeat(c, k) == [i \in 1..k |-> c]

\* nMiss missing cells, ka cells base + d, kb cells base - d, the rest base
PatternVals(rows, nMiss, ka, kb, base, d) ==
    Repeat(<<>>, nMiss) \o Repeat(<<base + d>>, ka)
        \o Repeat(<<base - d>>, kb) \o Repeat(<<base>>, rows - nMiss - ka - kb)

\* label codes of a non-numeric column
LabelVals(rows) == [i \in 1..rows |-> <<1 + (i % 2)>>]

Str_MYC_4609 == <<"M","Y","C"," ","(","4","6","0","9",")">>

Str_PTEN == <<"P","T","E","N">>

Str_MYC_7 == <<"M","Y","C","(","7",")">>

Str_ABC_1 == <<"A","B","C","-","1"," ","(","1","0","0",")">>

Str_E2F1 == <<"E","2","F","1">>

\* the column names of the ranking tables, by position
RankNames == <<Str_MYC_4609, Str_PTEN, Str_MYC_7, Str_ABC_1, Str_E2F1>>

\* the columns of the ranking tables: means -2.0, 0.5, 0.5 with one missing
\* value, -1.0 as integers, a constant column, mean 5.0, and a text column
RankColumns(rows) ==
    { [dtype |-> "float64", vals |-> PatternVals(rows, 0, 1, 1, -2000, 100)],
      [dtype |-> "float64", vals |-> PatternVals(rows, 0, 1, 1, 500, 100)],
      [dtype |-> "float64", vals |-> PatternVals(rows, 1, 1, 1, 500, 200)],
      [dtype |-> "int64",   vals |-> PatternVals(rows, 0, 1, 1, -1000, 1000)],
      [dtype |-> "float64", vals |-> PatternVals(rows, 0, 0, 0, 0, 0)],
      [dtype |-> "float64", vals |-> PatternVals(rows, 0, 1, 1, 5000, 100)],
      [dtype |-> "object",  vals |-> LabelVals(rows)] }

\* 3 rows as in the end-to-end example, or enough for a score column
RowChoices == {3} \cup ((MinNonMissing + 1)..MaxRows)

RankTables ==
    UNION { UNION { { [i \in 1..n |-> [name  |-> RankNames[i],
                                       dtype |-> f[i].dtype,
                                       vals  |-> f[i].vals]] :
                        f \in [1..n -> RankColumns(rows)] } :
                    n \in 1..MaxCols } :
            rows \in RowChoices }

ClassifyBases == {-5000, -2000, 0, 500, 2000, 5000}

ClassifyDeltas == {0, 10, 11, 100}

\* one-column tables around every threshold of the classifier
ClassifyTables ==
    { << [name  |-> Str_PTEN, dtype |-> dtype,
          vals  |-> PatternVals(rows, nMiss, ka, kb, base, d)] >> :
        <<dtype, rows, nMiss, ka, kb, base, d>> \in
            { t \in {"float64", "object"} \X ((MinNonMissing + 1)..MaxRows)
                       \X (0..MaxMissing) \X {0, 1, 5} \X {0, 5}
                       \X ClassifyBases \X ClassifyDeltas :
                  t[3] + t[4] + t[5] <= t[2] } }

\* the session before the first run and empty caches
InitSession ==
    /\ session_state = [crispr_data |-> None, gene_rankings |-> None,
                        n_cell_lines |-> 0]
    /\ uploaded_file = None
    /\ data_loaded = FALSE
    /\ download_called = FALSE
    /\ rankings_cache = <<>>
    /\ gdrive_cache = None
    /\ tabs = [tab1 |-> "pending", tab2 |-> "pending", tab3 |-> "pending"]

InitRest ==
    /\ InitSession
    /\ pc = "loaded"
    /\ gene_rankings = None
    /\ n_cell_lines = 0
    /\ error_msg = None
    /\ display = None
    /\ gene_list = <<>>
    /\ matched = <<>>
    /\ not_found = <<>>
    /\ lineage_col = None
    /\ lineage_data = None

InitRank ==
    /\ df \in RankTables \cup ClassifyTables
    /\ InitRest

NextRank == ComputeGeneRankings \/ ShowRankingFailure

SpecRank == InitRank /\ [][NextRank]_vars

(***************************************************************************)
(* filter_genes_by_list                                                    *)
(***************************************************************************)
\* the matched symbols in the order and the casing of the user's list
MatchedGenesInputOrder(gene_rank_df, genes) ==
    SelectSeq(genes, LAMBDA g :
        \E i \in DOMAIN gene_rank_df : gene_rank_df[i].gene_upper = Upper(g))

\* gene_rank_df[matched_mask]['gene'].tolist()
MatchedGenes(gene_rank_df, genes) ==
    LET gene_list_upper == {Upper(genes[k]) : k \in DOMAIN genes}
        matched_rows == SelectSeq(gene_rank_df,
                                  LAMBDA row : row.gene_upper \in gene_list_upper)
    IN  [i \in DOMAIN matched_rows |-> matched_rows[i].gene]

\* the misses found by comparing without upper()
NotFoundCaseSensitive(gene_rank_df, genes) ==
    SelectSeq(genes, LAMBDA g :
        \A i \in DOMAIN gene_rank_df : gene_rank_df[i].gene # g)

\* [g for g in gene_list if g.upper() not in matched_upper]
NotFoundGenes(gene_rank_df, genes) ==
    LET gene_list_upper == {Upper(genes[k]) : k \in DOMAIN genes}
        matched_upper == {gene_rank_df[i].gene_upper : i \in
                            {r \in DOMAIN gene_rank_df :
                                gene_rank_df[r].gene_upper \in gene_list_upper}}
    IN  SelectSeq(genes, LAMBDA g : Upper(g) \notin matched_upper)

MaxGenes == 3

Str_myc == <<"m","y","c">>

Str_Foo == <<"F","o","o">>

Str_MY == <<"M","Y">>

Str_e2f1 == <<"e","2","f","1">>

\* the symbols a user asks for, already stripped of white space
RequestedSymbols == {Str_myc, Str_Foo, Str_PTEN, Str_MY, Str_e2f1}

GeneLists == UNION { [1..n -> RequestedSymbols] : n \in 1..MaxGenes }

\* the matcher keeping only the matched rows in the ranking it was given
FilterGenesByListInPlace ==
    /\ pc = "ranked"
    /\ gene_rankings # None
    /\ \E genes \in GeneLists :
          /\ gene_list' = genes
          /\ matched' = MatchedGenes(gene_rankings[1], genes)
          /\ not_found' = NotFoundGenes(gene_rankings[1], genes)
          /\ gene_rankings' =
                 Some(SelectSeq(gene_rankings[1], LAMBDA row :
                          \E k \in DOMAIN genes : row.gene_upper = Upper(genes[k])))
    /\ pc' = "filtered"
    /\ UNCHANGED <<df, n_cell_lines, error_msg, display, lineage_col, lineage_data, appVars>>

\* matched, not_found = filter_genes_by_list(gene_rankings, genes_for_box)
\* for a non-empty list of requested genes
FilterGenesByList ==
    /\ pc = "ranked"
    /\ gene_rankings # None
    /\ \E genes \in GeneLists :
          /\ gene_list' = genes
          /\ matched' = MatchedGenes(gene_rankings[1], genes)
          /\ not_found' = NotFoundGenes(gene_rankings[1], genes)
    /\ pc' = "filtered"
    /\ UNCHANGED <<df, gene_rankings, n_cell_lines, error_msg, display,
                   lineage_col, lineage_data, appVars>>

(***************************************************************************)
(* get_lineage_data                                                        *)
(***************************************************************************)
Str_lineage == <<"l","i","n","e","a","g","e">>

Str_sub == <<"s","u","b">>

\* the test of a column name without the exclusion of "sub"
IsLineageNameAnySub(name) == Contains(Lower(name), Str_lineage)

\* 'lineage' in col.lower() and 'sub' not in col.lower()
IsLineageName(name) ==
    Contains(Lower(name), Str_lineage) /\ ~Contains(Lower(name), Str_sub)

\* the loop that sets lineage_col: the first column that passes the test
RECURSIVE LineageColumnFrom(_, _)
LineageColumnFrom(table, i) ==
    IF i > Len(table) THEN None
    ELSE IF IsLineageName(table[i].name) THEN Some(table[i].name)
    ELSE LineageColumnFrom(table, i + 1)

LineageColumn(table) == LineageColumnFrom(table, 1)

\* df[name]
Column(table, name) == table[CHOOSE i \in DOMAIN table : table[i].name = name]

\* df_cols_upper = {c.upper(): c for c in df.columns}: a later column
\* replaces an earlier one of the same upper-case name
DfColsUpper(table) ==
    [u \in {Upper(table[i].name) : i \in DOMAIN table} |->
        table[CHOOSE i \in DOMAIN table :
                 /\ Upper(table[i].name) = u
                 /\ \A j \in DOMAIN table : Upper(table[j].name) = u => j <= i].name]

\* actual_genes
ActualGenes(table, genes) ==
    LET df_cols_upper == DfColsUpper(table)
        found == SelectSeq(genes, LAMBDA g : Upper(g) \in DOMAIN df_cols_upper)
    IN  [k \in DOMAIN found |-> df_cols_upper[Upper(found[k])]]

\* df[[lineage_col, gene]] renamed, with the column gene added
LineageFrame(table, lineage_name, gene) ==
    [r \in 1..NumRows(table) |->
        [lineage      |-> Column(table, lineage_name).vals[r],
         crispr_score |-> Column(table, gene).vals[r],
         gene         |-> gene]]

\* pd.concat(result, ignore_index=True)
RECURSIVE Concat(_)
Concat(frames) ==
    IF frames = <<>> THEN <<>> ELSE Head(frames) \o Concat(Tail(frames))

\* the value get_lineage_data returns
LineageData(table, genes) ==
    LET col == LineageColumn(table)
        actual_genes == ActualGenes(table, genes)
    IN  IF col = None THEN None
        ELSE IF actual_genes = <<>> THEN None
        ELSE Some(Concat([k \in DOMAIN actual_genes |->
                              LineageFrame(table, col[1], actual_genes[k])]))

MaxBoxGenes == 8

\* the branch  if matched  of the second tab: at most 8 genes are kept and
\* lineage_data = get_lineage_data(df, matched)
GetLineageData ==
    /\ pc = "filtered"
    /\ matched # <<>>
    /\ matched' = Take(matched, MaxBoxGenes)
    /\ lineage_col' = LineageColumn(df)
    /\ lineage_data' = LineageData(df, matched')
    /\ pc' = "lineage"
    /\ UNCHANGED <<df, gene_rankings, n_cell_lines, error_msg, display,
                   gene_list, not_found, appVars>>

Str_Lineage == <<"L","i","n","e","a","g","e">>

Str_Lineage_Sub_type ==
    <<"L","i","n","e","a","g","e","_","S","u","b","_","t","y","p","e">>

Str_OncotreeLineage ==
    <<"O","n","c","o","t","r","e","e","L","i","n","e","a","g","e">>

Str_Myc == <<"M","y","c">>

\* the columns of the matching tables: three text columns and four numeric
\* ones, of means -2.0, 0.5, 0.5 and a constant
MatchRows == MinNonMissing + 1

MatchColumns ==
    { [name |-> Str_Lineage, dtype |-> "object", vals |-> LabelVals(MatchRows)],
      [name |-> Str_Lineage_Sub_type, dtype |-> "object",
       vals |-> LabelVals(MatchRows)],
      [name |-> Str_OncotreeLineage, dtype |-> "object",
       vals |-> LabelVals(MatchRows)],
      [name |-> Str_MYC_4609, dtype |-> "float64",
       vals |-> PatternVals(MatchRows, 0, 1, 1, -2000, 100)],
      [name |-> Str_PTEN, dtype |-> "float64",
       vals |-> PatternVals(MatchRows, 0, 1, 1, 500, 100)],
      [name |-> Str_Myc, dtype |-> "float64",
       vals |-> PatternVals(MatchRows, 0, 1, 1, 500, 200)],
      [name |-> Str_E2F1, dtype |-> "float64",
       vals |-> PatternVals(MatchRows, 0, 0, 0, 0, 0)] }

\* tables of distinct columns, in every order
MatchTables ==
    UNION { { t \in [1..n -> MatchColumns] :
                \A i \in 1..n : \A j \in 1..n : t[i] = t[j] => i = j } :
            n \in 1..MaxCols }

InitMatch ==
    /\ df \in MatchTables
    /\ InitRest

NextMatch == ComputeGeneRankings \/ FilterGenesByList \/ GetLineageData

SpecMatch == InitMatch /\ [][NextMatch]_vars

(***************************************************************************)
(* Properties of compute_gene_rankings                                     *)
(***************************************************************************)
Ranked == pc \in {"ranked", "stopped"}

\* the rows of the ranking, <<>> when there is none
Rows == IF gene_rankings = None THEN <<>> ELSE gene_rankings[1]

ScoreIndices == {i \in DOMAIN df : IsScoreColumn(df[i])}

NonMissing(col) == Len(DropNa(col.vals))

\* the sample variance of the non-missing values, in thousandths squared
VarianceOf(col) ==
    LET s == DropNa(col.vals)
        n == Len(s)
    IN  Rat(SumSqDev(s, n, SumOf(s)), n * n * (n - 1))

\* the position in the table of the column a ranking row comes from
ColumnIndex(raw) == CHOOSE i \in DOMAIN df : df[i].name = raw

\* C1: when at least one column is classified as a score column the ranking
\* has exactly one row per classified score column (repeated symbols are
\* kept), the ranks are 1..N in row order and mean_score never decreases as
\* the rank increases.
C1_RankingShape ==
    (Ranked /\ ScoreIndices # {}) =>
        /\ gene_rankings # None
        /\ Len(Rows) = Cardinality(ScoreIndices)
        /\ {Rows[i].gene_raw : i \in DOMAIN Rows} = {df[i].name : i \in ScoreIndices}
        /\ \A i \in DOMAIN Rows :
              /\ Rows[i].rank = i
              /\ Rows[i].mean_score = MeanOf(df[ColumnIndex(Rows[i].gene_raw)].vals)
        /\ \A i \in DOMAIN Rows : \A j \in DOMAIN Rows :
              i < j => RatLE(Rows[i].mean_score, Rows[j].mean_score)

\* a ranking of three rows, two of them with the same symbol and two of them
\* with different means
C1_Witness ==
    /\ pc = "ranked"
    /\ Len(Rows) = 3
    /\ \E i, j \in DOMAIN Rows : i # j /\ Rows[i].gene = Rows[j].gene
    /\ RatLT(Rows[1].mean_score, Rows[3].mean_score)

\* the classification rule as the specification words it
QualifiesAsScore(col) ==
    /\ col.dtype \in {"float64", "int64", "bool"}
    /\ NonMissing(col) > 10
    /\ RatLT(Rat(-5, 1), MeanOf(col.vals))
    /\ RatLT(MeanOf(col.vals), Rat(2, 1))
    /\ RatLT(Rat(10 * 10, 1), VarianceOf(col))

\* C2: a column is in the ranking iff it has a numeric dtype, more than 10
\* non-missing values, a mean strictly between -5 and 2 and a standard
\* deviation strictly above 0.01; constant columns, columns of mean 5 and
\* the boundary values mean -5, mean 2, std 0.01 and 10 non-missing values
\* are all rejected.
C2_ClassifierRule ==
    Ranked =>
        \A c \in DOMAIN df :
            /\ (\E i \in DOMAIN Rows : Rows[i].gene_raw = df[c].name)
                   <=> QualifiesAsScore(df[c])
            /\ ( \/ NonMissing(df[c]) <= 10
                 \/ Cardinality(Range(DropNa(df[c].vals))) <= 1
                 \/ MeanOf(df[c].vals) \in {Rat(5, 1), Rat(-5, 1), Rat(2, 1)}
                 \/ VarianceOf(df[c]) = Rat(100, 1) )
                   => \A i \in DOMAIN Rows : Rows[i].gene_raw # df[c].name

\* a numeric column of more than 10 values with its mean in range and a
\* standard deviation of exactly 0.01 has been rejected
C2_Witness ==
    /\ pc = "ranked"
    /\ Len(df) = 1
    /\ IsNumericDtype(df[1].dtype)
    /\ NonMissing(df[1]) > 10
    /\ MeanOf(df[1].vals) = Rat(1, 2)
    /\ VarianceOf(df[1]) = Rat(100, 1)
    /\ gene_rankings = None

\* the table of the end-to-end example but for its row count: two numeric
\* columns of means -2.0 and 0.5, each of standard deviation above 0.01
TwoScoreColumnTable ==
    /\ Len(df) = 2
    /\ \A c \in DOMAIN df :
          /\ IsNumericDtype(df[c].dtype)
          /\ NonMissing(df[c]) > 1
          /\ RatLT(Rat(100, 1), VarianceOf(df[c]))
    /\ {MeanOf(df[c].vals) : c \in DOMAIN df} = {Rat(-2, 1), Rat(1, 2)}

EndToEndRanking ==
    /\ gene_rankings # None
    /\ Len(Rows) = 2
    /\ <<Rows[1].rank, Rows[2].rank>> = <<1, 2>>
    /\ <<Rows[1].mean_score, Rows[2].mean_score>> = <<Rat(-2, 1), Rat(1, 2)>>
    /\ <<Rows[1].percentile, Rows[2].percentile>> = <<Rat(50, 1), Rat(100, 1)>>

\* C3 as stated: a table of 3 rows and two numeric columns of means -2.0 and
\* 0.5 is ranked [1, 2], the -2.0 column first, with percentiles [50, 100].
C3_ThreeRowExample ==
    (Ranked /\ NumRows(df) = 3 /\ TwoScoreColumnTable) => EndToEndRanking

\* C3 amended: a table of two numeric columns of means -2.0 and 0.5 (each
\* of standard deviation above 0.01) in which both columns have more than 10
\* non-missing values is ranked [1, 2], the -2.0 column first, with
\* percentiles [50, 100].
C3_EndToEnd ==
    (Ranked /\ TwoScoreColumnTable /\ \A c \in DOMAIN df : NonMissing(df[c]) > 10)
        => EndToEndRanking

\* the 0.5 column comes first in an 11-row table and is ranked second
C3_Witness ==
    /\ pc = "ranked"
    /\ TwoScoreColumnTable
    /\ NumRows(df) = 11
    /\ MeanOf(df[1].vals) = Rat(1, 2)
    /\ EndToEndRanking

\* C5: score columns of equal mean appear in the ranking in their table
\* column order.
C5_StableTies ==
    Ranked =>
        \A i \in DOMAIN Rows : \A j \in DOMAIN Rows :
            (i < j /\ Rows[i].mean_score = Rows[j].mean_score)
                => ColumnIndex(Rows[i].gene_raw) < ColumnIndex(Rows[j].gene_raw)

\* C8: in a ranking of N rows the row of rank r has percentile r / N * 100:
\* 100 / N for rank 1, exactly 100 for rank N, strictly increasing in rank.
C8_Percentiles ==
    (Ranked /\ gene_rankings # None) =>
        LET N == Len(Rows)
        IN  /\ \A i \in 1..N :
                  Rows[i].percentile.num * N = Rows[i].rank * 100 * Rows[i].percentile.den
            /\ \A i \in 1..N : Rows[i].rank = 1 => Rows[i].percentile = Rat(100, N)
            /\ \A i \in 1..N : Rows[i].rank = N => Rows[i].percentile = Rat(100, 1)
            /\ \A i \in 1..N : \A j \in 1..N :
                  Rows[i].rank < Rows[j].rank
                      => RatLT(Rows[i].percentile, Rows[j].percentile)

\* a ranking of three rows, whose percentiles are not whole numbers
C8_Witness ==
    /\ pc = "ranked"
    /\ Len(Rows) = 3
    /\ Rows[1].percentile = Rat(100, 3)
    /\ Rows[2].percentile = Rat(200, 3)

Filtered == pc \in {"filtered", "lineage"}

\* equality of two strings up to the case of their letters
EqualIgnoreCase(a, b) ==
    /\ Len(a) = Len(b)
    /\ \A i \in DOMAIN a : UpperChar(a[i]) = UpperChar(b[i])

InRanking(g) == \E i \in DOMAIN Rows : EqualIgnoreCase(Rows[i].gene, g)

Requested(symbol) == \E k \in DOMAIN gene_list : EqualIgnoreCase(symbol, gene_list[k])

\* the ranking rows whose symbol was requested, in ranking order
RequestedRows == SelectSeq(Rows, LAMBDA row : Requested(row.gene))

\* C4 as stated: with a lineage column present, every matched symbol is
\* resolved to its raw score column and the result holds one record per
\* (sample row, matched gene), grouped by gene: R x G records carrying the
\* lineage labels and the scores of that column.
C4_LineageRecords ==
    (pc = "lineage" /\ lineage_col # None) =>
        LET R == NumRows(df)
            G == Len(matched)
        IN  /\ lineage_data # None
            /\ Len(lineage_data[1]) = R * G
            /\ \A k \in 1..G : \A r \in 1..R :
                  LET rec == lineage_data[1][(k - 1) * R + r]
                      raw == RequestedRows[k].gene_raw
                  IN  /\ rec.lineage = Column(df, lineage_col[1]).vals[r]
                      /\ rec.crispr_score = Column(df, raw).vals[r]
                      /\ rec.gene \in {raw, matched[k]}

\* C6: not_found holds exactly the requested symbols that equal no ranking
\* symbol up to case, in the order and casing of the request, and every
\* requested symbol is either in not_found or matches a ranking row, never
\* both.
C6_NotFound ==
    Filtered =>
        /\ not_found = SelectSeq(gene_list, LAMBDA g : ~InRanking(g))
        /\ \A k \in DOMAIN gene_list :
              (\E m \in DOMAIN not_found : not_found[m] = gene_list[k])
                  <=> ~(\E i \in DOMAIN Rows : Rows[i].gene_upper = Upper(gene_list[k]))

\* a request in which a miss, a prefix of a ranked symbol and a hit in
\* another casing occur, the miss twice
C6_Witness ==
    /\ pc = "filtered"
    /\ gene_list = <<Str_Foo, Str_myc, Str_Foo>>
    /\ not_found = <<Str_Foo, Str_Foo>>
    /\ \E i \in DOMAIN Rows : Rows[i].gene = <<"M","Y","C">>

\* C7: matched holds the symbols of exactly the ranking rows whose symbol
\* equals a requested symbol up to case, in ranking order and in the
\* ranking's casing.
C7_Matched ==
    pc = "filtered" =>
        /\ matched = [i \in DOMAIN RequestedRows |-> RequestedRows[i].gene]
        /\ \A i \in DOMAIN matched : \A j \in DOMAIN matched :
              i < j => \E a, b \in DOMAIN Rows :
                          /\ a < b
                          /\ Rows[a].gene = matched[i]
                          /\ Rows[b].gene = matched[j]

\* the example: myc, Foo, PTEN asked of a ranking that holds PTEN after MYC
C7_Witness ==
    /\ pc = "filtered"
    /\ gene_list = <<Str_myc, Str_Foo, Str_PTEN>>
    /\ df[1].name = Str_PTEN
    /\ matched = << <<"M","Y","C">>, Str_PTEN >>
    /\ not_found = <<Str_Foo>>

\* C10: the lineage column is the first column whose name contains
\* "lineage" and does not contain "sub", whatever the case of the letters;
\* without such a column there is no lineage column and no record.
C10_LineageColumn ==
    pc = "lineage" =>
        LET ok == {i \in DOMAIN df :
                      /\ Contains(Lower(df[i].name), Str_lineage)
                      /\ ~Contains(Lower(df[i].name), Str_sub)}
        IN  /\ ok = {} => (lineage_col = None /\ lineage_data = None)
            /\ ok # {} =>
                  /\ lineage_col # None
                  /\ \E i \in ok : /\ df[i].name = lineage_col[1]
                                   /\ \A j \in ok : i <= j
                  /\ lineage_data # None =>
                        \A m \in DOMAIN lineage_data[1] :
                            lineage_data[1][m].lineage =
                                Column(df, lineage_col[1]).vals[((m - 1) % NumRows(df)) + 1]

\* the sub-lineage column comes before the lineage column, which is chosen
C10_Witness ==
    /\ pc = "lineage"
    /\ df[1].name = Str_Lineage_Sub_type
    /\ Len(df) = 3
    /\ df[2].name = Str_Lineage
    /\ lineage_col = Some(Str_Lineage)
    /\ lineage_data # None

(***************************************************************************)
(* extract_gene_name                                                       *)
(***************************************************************************)
MaxNameLen == 4

\* a letter of each case, a digit, two token signs, a blank, a parenthesis
\* and a character that is none of these
NameChars == {"A", "c", "7", "_", "-", " ", "(", "/"}

NameStrings ==
    UNION { [1..n -> NameChars] : n \in 1..MaxNameLen }
        \cup {Str_MYC_4609, Str_ABC_1, Str_PTEN, Str_MYC_7}

\* one score column under every name
InitExtract ==
    /\ df \in { << [name  |-> name, dtype |-> "float64",
                    vals  |-> PatternVals(MatchRows, 0, 1, 1, -2000, 100)] >> :
                  name \in NameStrings }
    /\ InitRest

NextExtract == ComputeGeneRankings

SpecExtract == InitExtract /\ [][NextExtract]_vars

\* letters, digits, dot, dash and underscore
TokenSign(c) ==
    \/ UpperChar(c) # c
    \/ LowerChar(c) # c
    \/ c \in Digits
    \/ c \in {".", "-", "_"}

\* the lengths k of a leading token of name that is followed, after white
\* space if any, by an opening parenthesis
LeadingTokens(name) ==
    { k \in 1..Len(name) :
        /\ \A i \in 1..k : TokenSign(name[i])
        /\ \E j \in k..(Len(name) - 1) :
              /\ \A i \in (k + 1)..j : name[i] \in {" ", "\t"}
              /\ name[j + 1] = "(" }

\* C12: a column name that starts with a non-empty token of letters, digits,
\* dot, dash or underscore followed (after optional white space, as in
\* "MYC (4609)") by an opening parenthesis gives exactly that token, every
\* other name is returned unchanged, and gene_upper is the upper case of the
\* extracted symbol.
C12_ExtractGeneName ==
    (pc = "ranked" /\ Len(Rows) = 1) =>
        LET name == df[1].name
            gene == Rows[1].gene
        IN  /\ \A k \in LeadingTokens(name) : gene = SubSeq(name, 1, k)
            /\ LeadingTokens(name) = {} => gene = name
            /\ name = Str_MYC_4609 => gene = <<"M", "Y", "C">>
            /\ name = Str_ABC_1 => gene = <<"A", "B", "C", "-", "1">>
            /\ name = Str_PTEN => gene = Str_PTEN
            /\ EqualIgnoreCase(Rows[1].gene_upper, gene)
            /\ \A i \in DOMAIN gene : Rows[1].gene_upper[i] = UpperChar(gene[i])

\* a token, a blank and a parenthesis: the token alone is the symbol, and
\* its lower-case letter is raised in gene_upper
C12_Witness ==
    /\ pc = "ranked"
    /\ df[1].name = <<"c", "-", " ", "(">>
    /\ Rows[1].gene = <<"c", "-">>
    /\ Rows[1].gene_upper = <<"C", "-">>

(***************************************************************************)
(* Frame of the core operations                                            *)
(***************************************************************************)
\* C13: compute_gene_rankings, filter_genes_by_list and get_lineage_data
\* leave their inputs as they were: the table keeps its columns, their order,
\* its rows and its values through every call, and the ranking handed to the
\* matcher and used afterwards is unchanged.
C13_InputsUnchanged ==
    [][ /\ df' = df
        /\ pc # "loaded" => gene_rankings' = gene_rankings ]_vars

\* the three operations have run in turn and records were produced for two
\* genes, from the table and the ranking as they were
C13_Witness ==
    /\ pc = "lineage"
    /\ lineage_data # None
    /\ Len(matched) = 2
    /\ Len(not_found) = 1
    /\ Len(Rows) = 2
    /\ Len(df) = 3

(***************************************************************************)
(* The application: the script runs from top to bottom at every            *)
(* interaction of the user, over the session state and the caches          *)
(***************************************************************************)
\* GOOGLE_DRIVE_FILE_ID is set to a non-empty string
GoogleDriveFileId == TRUE

AppTable(names) ==
    [i \in DOMAIN names |-> CHOOSE c \in MatchColumns : c.name = names[i]]

\* the tables a user uploads: one with a lineage column and two tied score
\* columns, one without lineage column, one without score column and one
\* whose only score column is named in the SYMBOL (ID) form
UploadTables ==
    { AppTable(<<Str_Lineage, Str_PTEN, Str_Myc>>),
      AppTable(<<Str_MYC_4609, Str_PTEN>>),
      AppTable(<<Str_Lineage, Str_E2F1>>),
      AppTable(<<Str_Lineage, Str_MYC_4609>>) }

\* the table behind the Google Drive file
RemoteTable == AppTable(<<Str_OncotreeLineage, Str_PTEN>>)

\* the file uploader holds nothing, a CSV file, or a file that pd.read_csv
\* rejects
UploadedFiles ==
    {None} \cup {Some([parsed |-> Some(t)]) : t \in UploadTables}
           \cup {Some([parsed |-> None])}

DownloadErrorMsg == "download failed"

\* the values download_from_gdrive returns: (df, True, None) or
\* (None, False, reason)
DownloadOutcomes ==
    { <<Some(RemoteTable), TRUE, None>>, <<None, FALSE, Some(DownloadErrorMsg)>> }

\* st.cache_data on download_from_gdrive: the cached value while there is one
DownloadFromGdrive(cache) ==
    IF cache # None THEN {cache[1]} ELSE DownloadOutcomes

\* the branch of the data loading taken whatever the upload
LoadBranchDownloadFirst(file, data) ==
    IF GoogleDriveFileId THEN "download"
    ELSE IF file # None THEN "upload"
    ELSE IF data # None THEN "session"
    ELSE "none"

\* the if / elif chain of the data loading
LoadBranch(file, data) ==
    IF file # None THEN "upload"
    ELSE IF GoogleDriveFileId /\ data = None THEN "download"
    ELSE IF data # None THEN "session"
    ELSE "none"

\* the values compute_gene_rankings may return for a table
ComputeResults(table) ==
    IF GeneCols(table) = <<>>
    THEN {NoScoreColumnsFound}
    ELSE { <<Some(BuildRankings(mean_scores)), NumRows(table), None>> :
             mean_scores \in SortValues(MeanScores(table)) }

\* compute_gene_rankings on each table the application can be given
ResultsOf ==
    [table \in UploadTables \cup {RemoteTable} |-> ComputeResults(table)]

\* a cache that answers with any value it holds, whatever the table
CachedComputeAnyEntry(cache, table) ==
    IF DOMAIN cache # {} THEN {cache[t] : t \in DOMAIN cache}
    ELSE ResultsOf[table]

\* st.cache_data on compute_gene_rankings: the value cached for an equal
\* table, or else a fresh computation
CachedCompute(cache, table) ==
    IF table \in DOMAIN cache THEN {cache[table]} ELSE ResultsOf[table]

RunEnded == {"idle", "nodata", "error", "stopped", "done"}

PendingTabs == [tab1 |-> "pending", tab2 |-> "pending", tab3 |-> "pending"]

\* a new run of the script starts with fresh local variables
FreshLocals ==
    /\ df' = <<>>
    /\ gene_rankings' = None
    /\ n_cell_lines' = 0
    /\ error_msg' = None
    /\ display' = None
    /\ gene_list' = <<>>
    /\ matched' = <<>>
    /\ not_found' = <<>>
    /\ lineage_col' = None
    /\ lineage_data' = None
    /\ tabs' = PendingTabs

\* a rerun after an interaction, up to the end of the data loading and the
\* test  if not data_loaded
LoadData ==
    /\ pc \in RunEnded
    /\ FreshLocals
    /\ rankings_cache' = rankings_cache
    /\ \E file \in UploadedFiles :
          /\ uploaded_file' = file
          /\ LET branch == LoadBranch(file, session_state.crispr_data)
             IN  CASE branch = "upload" ->
                        /\ download_called' = FALSE
                        /\ gdrive_cache' = gdrive_cache
                        /\ IF file[1].parsed = None
                           THEN /\ session_state' = session_state
                                /\ data_loaded' = FALSE
                                /\ pc' = "error"
                           ELSE /\ session_state' =
                                       [session_state EXCEPT !.crispr_data = file[1].parsed]
                                /\ data_loaded' = TRUE
                                /\ pc' = "loaded"
                  [] branch = "download" ->
                        /\ download_called' = TRUE
                        /\ \E outcome \in DownloadFromGdrive(gdrive_cache) :
                              /\ gdrive_cache' = Some(outcome)
                              /\ IF outcome[2]
                                 THEN /\ session_state' =
                                             [session_state EXCEPT !.crispr_data = outcome[1]]
                                      /\ data_loaded' = TRUE
                                      /\ pc' = "loaded"
                                 ELSE /\ session_state' = session_state
                                      /\ data_loaded' = FALSE
                                      /\ pc' = "nodata"
                  [] branch = "session" ->
                        /\ download_called' = FALSE
                        /\ gdrive_cache' = gdrive_cache
                        /\ session_state' = session_state
                        /\ data_loaded' = TRUE
                        /\ pc' = "loaded"
                  [] OTHER ->
                        /\ download_called' = FALSE
                        /\ gdrive_cache' = gdrive_cache
                        /\ session_state' = session_state
                        /\ data_loaded' = FALSE
                        /\ pc' = "nodata"

\* ttl = 86400: the cached download is forgotten after a day
ExpireDownload ==
    /\ gdrive_cache # None
    /\ gdrive_cache' = None
    /\ UNCHANGED <<df, pc, gene_rankings, n_cell_lines, error_msg, display,
                   gene_list, matched, not_found, lineage_col, lineage_data,
                   session_state, uploaded_file, data_loaded, download_called,
                   rankings_cache, tabs>>

\* df = st.session_state.crispr_data, the call of compute_gene_rankings and
\* the two assignments to the session state
RankTable ==
    /\ pc = "loaded"
    /\ df' = session_state.crispr_data[1]
    /\ \E result \in CachedCompute(rankings_cache, df') :
          /\ gene_rankings' = result[1]
          /\ n_cell_lines' = result[2]
          /\ error_msg' = result[3]
          /\ session_state' = [session_state EXCEPT !.gene_rankings = result[1],
                                                    !.n_cell_lines = result[2]]
          /\ rankings_cache' =
                 [t \in DOMAIN rankings_cache \cup {df'} |->
                     IF t = df' THEN result ELSE rankings_cache[t]]
    /\ pc' = "ranked"
    /\ UNCHANGED <<display, gene_list, matched, not_found, lineage_col,
                   lineage_data, uploaded_file, data_loaded, download_called,
                   gdrive_cache, tabs>>

\* the gene lists typed into the three tabs, possibly cleared
Tab1Lists == {<<>>, <<Str_myc>>, <<Str_Foo>>}

Tab2Lists == {<<>>, <<Str_Foo>>, <<Str_myc, Str_PTEN>>}

Tab3Lists == {<<>>, <<Str_PTEN>>} \X {<<>>, <<Str_myc>>}

\* the overview and the first tab: the rank plot of the matched genes
Tab1 ==
    /\ pc = "ranked"
    /\ gene_rankings # None
    /\ \E genes_of_interest \in Tab1Lists :
          IF genes_of_interest # <<>>
          THEN /\ not_found' = NotFoundGenes(gene_rankings[1], genes_of_interest)
               /\ tabs' = [tabs EXCEPT !.tab1 =
                             IF MatchedGenes(gene_rankings[1], genes_of_interest) # <<>>
                             THEN "plot" ELSE "no_match"]
          ELSE /\ not_found' = not_found
               /\ tabs' = [tabs EXCEPT !.tab1 = "no_genes"]
    /\ pc' = "tab1"
    /\ UNCHANGED <<df, gene_rankings, n_cell_lines, error_msg, display,
                   gene_list, matched, lineage_col, lineage_data,
                   session_state, uploaded_file, data_loaded, download_called,
                   rankings_cache, gdrive_cache>>

\* the second tab stopping the run when there is no lineage data
AfterTab2StopOnError(status) ==
    IF status = "lineage_error" THEN "stopped" ELSE "tab2"

\* where the script goes on after the second tab: there is no st.stop()
AfterTab2(status) == "tab2"

\* the second tab: the box plot by lineage, or the error "no lineage column"
Tab2 ==
    /\ pc = "tab1"
    /\ \E genes_for_box \in Tab2Lists :
          /\ gene_list' = genes_for_box
          /\ IF genes_for_box # <<>>
             THEN /\ not_found' = NotFoundGenes(gene_rankings[1], genes_for_box)
                  /\ matched' = Take(MatchedGenes(gene_rankings[1], genes_for_box),
                                     MaxBoxGenes)
                  /\ IF matched' # <<>>
                     THEN /\ lineage_col' = LineageColumn(df)
                          /\ lineage_data' = LineageData(df, matched')
                          /\ tabs' = [tabs EXCEPT !.tab2 =
                                        IF lineage_data' # None
                                        THEN "chart" ELSE "lineage_error"]
                     ELSE /\ UNCHANGED <<lineage_col, lineage_data>>
                          /\ tabs' = [tabs EXCEPT !.tab2 = "no_match"]
             ELSE /\ UNCHANGED <<not_found, matched, lineage_col, lineage_data>>
                  /\ tabs' = [tabs EXCEPT !.tab2 = "no_genes"]
    /\ pc' = AfterTab2(tabs'.tab2)
    /\ UNCHANGED <<df, gene_rankings, n_cell_lines, error_msg, display,
                   session_state, uploaded_file, data_loaded, download_called,
                   rankings_cache, gdrive_cache>>

\* the third tab: the multi-layer plot of background and highlight genes,
\* then the footer and the end of the script
Tab3 ==
    /\ pc = "tab2"
    /\ \E lists \in Tab3Lists :
          LET bg_genes == lists[1]
              hl_genes == lists[2]
          IN  tabs' = [tabs EXCEPT !.tab3 =
                         IF bg_genes # <<>> \/ hl_genes # <<>>
                         THEN IF \/ MatchedGenes(gene_rankings[1], bg_genes) # <<>>
                                 \/ MatchedGenes(gene_rankings[1], hl_genes) # <<>>
                              THEN "plot" ELSE "counts"
                         ELSE "no_genes"]
    /\ pc' = "done"
    /\ UNCHANGED <<df, gene_rankings, n_cell_lines, error_msg, display,
                   gene_list, matched, not_found, lineage_col, lineage_data,
                   session_state, uploaded_file, data_loaded, download_called,
                   rankings_cache, gdrive_cache>>

InitApp ==
    /\ InitSession
    /\ pc = "idle"
    /\ df = <<>>
    /\ gene_rankings = None
    /\ n_cell_lines = 0
    /\ error_msg = None
    /\ display = None
    /\ gene_list = <<>>
    /\ matched = <<>>
    /\ not_found = <<>>
    /\ lineage_col = None
    /\ lineage_data = None

\* the steps of one run of the script after the data loading
RunSteps == RankTable \/ ShowRankingFailure \/ Tab1 \/ Tab2 \/ Tab3

NextApp == LoadData \/ ExpireDownload \/ RunSteps

SpecApp == InitApp /\ [][NextApp]_vars

\* a run that has started goes on to its end: the script is single-threaded
\* and nothing in it waits
SpecAppLive == SpecApp /\ WF_vars(RunSteps)

(***************************************************************************)
(* Properties of the application                                           *)
(***************************************************************************)
\* the table the session holds has at least one score column
HeldTableHasScores ==
    /\ session_state.crispr_data # None
    /\ GeneCols(session_state.crispr_data[1]) # <<>>

C14_RankingOfHeldTable ==
    pc \in {"ranked", "tab1", "tab2", "done", "stopped"} =>
        /\ data_loaded
        /\ session_state.crispr_data = Some(df)
        /\ session_state.gene_rankings = gene_rankings
        /\ session_state.n_cell_lines = n_cell_lines
        /\ <<gene_rankings, n_cell_lines, error_msg>> \in ComputeResults(df)
        /\ (gene_rankings = None) <=> (ScoreIndices = {})
        /\ gene_rankings # None =>
              /\ {Rows[i].gene_raw : i \in DOMAIN Rows} = {df[i].name : i \in ScoreIndices}
              /\ Len(Rows) = Cardinality(ScoreIndices)
              /\ n_cell_lines = NumRows(df)
              /\ \A i \in DOMAIN Rows :
                    Rows[i].mean_score = MeanOf(df[ColumnIndex(Rows[i].gene_raw)].vals)

\* the downloaded table was ranked, then replaced by an uploaded one, and
\* the upload was removed: the tabs read the ranking of the uploaded table
C14_Witness ==
    /\ pc = "tab1"
    /\ uploaded_file = None
    /\ RemoteTable \in DOMAIN rankings_cache
    /\ df = AppTable(<<Str_MYC_4609, Str_PTEN>>)
    /\ Len(Rows) = 2
    /\ Cardinality(DOMAIN rankings_cache) >= 3

\* a step that starts a run and loads the data, as opposed to the expiry of
\* the cached download between two runs
LoadingStep ==
    /\ pc \in RunEnded
    /\ ~(gdrive_cache # None /\ gdrive_cache' = None)

\* C15: in the data loading an uploaded file comes first and the download is
\* called only when nothing is uploaded and the session holds no table; a
\* table the session holds is never dropped and only an uploaded table
\* replaces it; a failed download leaves the session without table and stops
\* the run before any ranking.
C15_DataLoading ==
    [][ /\ (LoadingStep /\ uploaded_file' # None) => ~download_called'
        /\ (LoadingStep /\ uploaded_file' # None /\ uploaded_file'[1].parsed # None)
               => session_state'.crispr_data = uploaded_file'[1].parsed
        /\ (LoadingStep /\ download_called')
               => (uploaded_file' = None /\ session_state.crispr_data = None)
        /\ session_state.crispr_data # None => session_state'.crispr_data # None
        /\ ( /\ session_state.crispr_data # None
             /\ session_state'.crispr_data # session_state.crispr_data )
               => ( /\ uploaded_file' # None
                    /\ session_state'.crispr_data = uploaded_file'[1].parsed )
        /\ (LoadingStep /\ download_called' /\ ~gdrive_cache'[1][2])
               => ( /\ session_state'.crispr_data = None
                    /\ ~data_loaded'
                    /\ pc' = "nodata"
                    /\ gene_rankings' = None
                    /\ rankings_cache' = rankings_cache )
        /\ pc = "nodata" => pc' \in {"nodata", "loaded", "error"} ]_vars

\* a download has failed after the cached one had expired: no table, no
\* ranking, the run has stopped
C15_Witness ==
    /\ pc = "nodata"
    /\ download_called
    /\ gdrive_cache = Some(<<None, FALSE, Some(DownloadErrorMsg)>>)
    /\ session_state.crispr_data = None
    /\ session_state.gene_rankings = None

====
